---- MODULE Spec2Model ----
(***************************************************************************)
(* A model of kawofong/temporal-python-template, src/workflows/http:       *)
(*   activities.py     http_get                                            *)
(*   http_workflow.py  HttpWorkflow.run                                    *)
(*   worker.py         TemporalWorkerTask, run_ray_worker, main            *)
(*                                                                         *)
(* Three state machines share the module:                                  *)
(*   SpecWf / FairSpecWf      one execution of HttpWorkflow.run and the    *)
(*                            attempts of its http_get activity            *)
(*   SpecReplica              one TemporalWorkerTask actor: start_worker,  *)
(*                            its activity executions, shutdown            *)
(*   SpecMain / FairSpecMain  worker.main: ray.init, run_ray_worker, the   *)
(*                            wait on the replicas, ray.shutdown           *)
(***************************************************************************)
EXTENDS Integers, Sequences, FiniteSets

VARIABLES
    \* ---- one workflow execution (http_workflow.py, activities.py)
    endpoint,        \* what the URL passed to run(url) answers
    wfState,         \* "Scheduled" | "Running" | "Completed" | "Failed"
    wfResult,        \* the value run returned
    wfFailure,       \* <<kind, cause>> of the failure run raised
    actState,        \* "None" | "Scheduled" | "Started" | "Completed" | "Failed"
    actResult,       \* the value http_get returned
    attempt,         \* attempt number of the activity (saturates at MaxAttempt)
    elapsed,         \* seconds since the current attempt started
    lastFailure,     \* <<kind, cause>> of the last failed attempt
    externalCalls,   \* session.get calls issued (saturates at MaxAttempt)
    \* ---- TemporalWorkerTask actors (worker.py)
    max_concurrent_activities,  \* the constructor argument
    rep,             \* rep[r]: position of actor r in start_worker
    client,          \* client[r]: self.client of actor r
    worker,          \* worker[r]: self.worker of actor r
    executorSize,    \* executorSize[r]: threads of the activity_executor
    task,            \* task[t]: activity task t of the task queue
    shutdownCalls,   \* calls of TemporalWorkerTask.shutdown so far
    \* ---- worker.main
    rayInitialized,  \* ray.is_initialized()
    rayInitCalls,    \* calls of ray.init()
    rayShutdownCalls,\* calls of ray.shutdown()
    mainPc,          \* position of main
    spawned,         \* worker_tasks built so far by run_ray_worker
    mainExc,         \* the exception main is handling
    interrupted      \* a KeyboardInterrupt was delivered to main

wfVars == <<endpoint, wfState, wfResult, wfFailure, actState, actResult,
            attempt, elapsed, lastFailure, externalCalls>>
repVars == <<max_concurrent_activities, rep, client, worker, executorSize>>
taskVars == <<task, shutdownCalls>>
mainVars == <<rayInitialized, rayInitCalls, rayShutdownCalls, mainPc, spawned,
              mainExc, interrupted>>
vars == <<wfVars, repVars, taskVars, mainVars>>

(***************************************************************************)
(* Bounds of the model.                                                    *)
(***************************************************************************)
MaxBodyLen == 2      \* longest response body
MaxLatency == 4      \* slowest endpoint, in seconds
MaxAttempt == 3      \* attempt numbers and call counts saturate here
MaxN == 2            \* largest max_concurrent_activities of SpecReplica
NumTasks == 4        \* activity tasks dispatched to the replica of SpecReplica
MaxShutdownCalls == 2

(***************************************************************************)
(* Program constants.                                                      *)
(***************************************************************************)
StartToCloseTimeout == 3
num_workers == 3
MainMaxConcurrentActivities == 5
\* Worker(...) is built without max_concurrent_activities: the library's
\* default number of activity slots applies.
WorkerActivitySlots == 100
\* execute_activity is called without retry_policy: the service's default
\* policy applies, whose maximum_attempts is 0, "unlimited".
RetryMaximumAttempts == 0

Min(a, b) == IF a < b THEN a ELSE b

Chars == {"p", "g"}
Bodies == UNION {[1..n -> Chars] : n \in 0..MaxBodyLen}

\* What a URL can answer: a response (any status) with a textual body after
\* `latency` seconds, or a connection error raised at once (invalid host).
Endpoints ==
    [kind : {"ok"}, status : {200, 500}, latency : 0..MaxLatency, body : Bodies]
    \cup [kind : {"conn_error"}, status : {0}, latency : {0}, body : {<< >>}]

NoFailure == <<"none", "none">>

Replicas == 1..num_workers
Tasks == 1..NumTasks

(***************************************************************************)
(* activities.py / http_workflow.py                                        *)
(***************************************************************************)

\* await response.text(): the body of the response, whatever its status
\* (http_get never looks at response.status).
ResponseText(resp) == resp.body

\* A mutant: run returns the activity's result cut by one character.
HttpWorkflowRunResultCut(activityResult) ==
    IF Len(activityResult) > 0
    THEN SubSeq(activityResult, 1, Len(activityResult) - 1)
    ELSE activityResult

\* return await workflow.execute_activity(...): run returns what the activity
\* returned.
HttpWorkflowRunResult(activityResult) == activityResult

\* The retry policy in force for the activity: none is passed, so attempts are
\* not limited.
CanRetry(n) == RetryMaximumAttempts = 0 \/ n < RetryMaximumAttempts

\* HttpWorkflow.run starts and asks for http_get(url).
WorkflowStart ==
    /\ wfState = "Scheduled"
    /\ wfState' = "Running"
    /\ actState' = "Scheduled"
    /\ attempt' = 1
    /\ UNCHANGED <<endpoint, wfResult, wfFailure, actResult, elapsed,
                   lastFailure, externalCalls>>
    /\ UNCHANGED <<repVars, taskVars, mainVars>>

\* An attempt of http_get starts: session.get(url) is issued.
ActivityStart ==
    /\ actState = "Scheduled"
    /\ actState' = "Started"
    /\ elapsed' = 0
    /\ externalCalls' = Min(externalCalls + 1, MaxAttempt)
    /\ UNCHANGED <<endpoint, wfState, wfResult, wfFailure, actResult, attempt,
                   lastFailure>>
    /\ UNCHANGED <<repVars, taskVars, mainVars>>

\* A second passes while the response has not arrived.
Tick ==
    /\ actState = "Started"
    /\ endpoint.kind = "ok"
    /\ elapsed < Min(endpoint.latency, StartToCloseTimeout)
    /\ elapsed' = elapsed + 1
    /\ UNCHANGED <<endpoint, wfState, wfResult, wfFailure, actState, actResult,
                   attempt, lastFailure, externalCalls>>
    /\ UNCHANGED <<repVars, taskVars, mainVars>>

\* http_get returns await response.text().
HttpGetReturn ==
    /\ actState = "Started"
    /\ endpoint.kind = "ok"
    /\ elapsed = endpoint.latency
    /\ elapsed < StartToCloseTimeout
    /\ actState' = "Completed"
    /\ actResult' = ResponseText(endpoint)
    /\ UNCHANGED <<endpoint, wfState, wfResult, wfFailure, attempt, elapsed,
                   lastFailure, externalCalls>>
    /\ UNCHANGED <<repVars, taskVars, mainVars>>

\* An attempt failed with `failure`: it is retried when the policy allows,
\* else the activity fails and run raises the failure.
AttemptFailed(failure) ==
    /\ lastFailure' = failure
    /\ IF CanRetry(attempt)
       THEN /\ actState' = "Scheduled"
            /\ attempt' = Min(attempt + 1, MaxAttempt)
            /\ UNCHANGED <<wfState, wfFailure>>
       ELSE /\ actState' = "Failed"
            /\ wfState' = "Failed"
            /\ wfFailure' = failure
            /\ UNCHANGED attempt
    /\ UNCHANGED <<endpoint, wfResult, actResult, elapsed, externalCalls>>
    /\ UNCHANGED <<repVars, taskVars, mainVars>>

\* session.get raises (aiohttp's ClientConnectorError): http_get catches
\* nothing, the attempt fails.
HttpGetRaise ==
    /\ actState = "Started"
    /\ endpoint.kind = "conn_error"
    /\ AttemptFailed(<<"ActivityError", "ClientConnectorError">>)

\* start_to_close_timeout=timedelta(seconds=3) elapses before http_get returns.
ActivityTimeout ==
    /\ actState = "Started"
    /\ elapsed = StartToCloseTimeout
    /\ AttemptFailed(<<"Timeout", "StartToClose">>)

\* execute_activity resolves and run returns its value.
WorkflowReturn ==
    /\ wfState = "Running"
    /\ actState = "Completed"
    /\ wfState' = "Completed"
    /\ wfResult' = HttpWorkflowRunResult(actResult)
    /\ UNCHANGED <<endpoint, wfFailure, actState, actResult, attempt, elapsed,
                   lastFailure, externalCalls>>
    /\ UNCHANGED <<repVars, taskVars, mainVars>>

(***************************************************************************)
(* worker.py: TemporalWorkerTask                                           *)
(***************************************************************************)

\* self.client = await Client.connect(...)
StartWorkerConnect(r) ==
    /\ rep[r] = "submitted"
    /\ rep' = [rep EXCEPT ![r] = "connected"]
    /\ client' = [client EXCEPT ![r] = "open"]
    /\ UNCHANGED <<max_concurrent_activities, worker, executorSize>>
    /\ UNCHANGED <<wfVars, taskVars, mainVars>>

\* Client.connect raises: start_worker catches nothing and ends with the error.
StartWorkerConnectFail(r) ==
    /\ rep[r] = "submitted"
    /\ rep' = [rep EXCEPT ![r] = "failed"]
    /\ UNCHANGED <<max_concurrent_activities, client, worker, executorSize>>
    /\ UNCHANGED <<wfVars, taskVars, mainVars>>

\* self.worker = Worker(client, task_queue, workflows=[HttpWorkflow],
\*     activities=[http_get],
\*     activity_executor=ThreadPoolExecutor(self.max_concurrent_activities))
StartWorkerCreateWorker(r) ==
    /\ rep[r] = "connected"
    /\ rep' = [rep EXCEPT ![r] = "registered"]
    /\ worker' = [worker EXCEPT ![r] = "created"]
    /\ executorSize' = [executorSize EXCEPT ![r] = max_concurrent_activities]
    /\ UNCHANGED <<max_concurrent_activities, client>>
    /\ UNCHANGED <<wfVars, taskVars, mainVars>>

\* await self.worker.run(): the poll loop starts.
StartWorkerRun(r) ==
    /\ rep[r] = "registered"
    /\ rep' = [rep EXCEPT ![r] = "polling"]
    /\ worker' = [worker EXCEPT ![r] = "running"]
    /\ UNCHANGED <<max_concurrent_activities, client, executorSize>>
    /\ UNCHANGED <<wfVars, taskVars, mainVars>>

\* worker.run() raises (a fatal poll error): start_worker ends with the error.
WorkerRunFail(r) ==
    /\ rep[r] = "polling"
    /\ rep' = [rep EXCEPT ![r] = "failed"]
    /\ worker' = [worker EXCEPT ![r] = "stopped"]
    /\ UNCHANGED <<max_concurrent_activities, client, executorSize>>
    /\ UNCHANGED <<wfVars, taskVars, mainVars>>

Running == {t \in Tasks : task[t] = "running"}

\* The polling worker takes activity task t and runs http_get.  http_get is
\* `async def`: it runs on the worker's event loop, bounded by the worker's
\* activity slots; the activity_executor serves only non-async activities.
ActivityTaskStart(r, t) ==
    /\ rep[r] = "polling"
    /\ client[r] = "open"
    /\ task[t] = "queued"
    /\ Cardinality(Running) < WorkerActivitySlots
    /\ task' = [task EXCEPT ![t] = "running"]
    /\ UNCHANGED shutdownCalls
    /\ UNCHANGED <<wfVars, repVars, mainVars>>

\* http_get of task t returns or raises.
ActivityTaskFinish(t) ==
    /\ task[t] = "running"
    /\ task' = [task EXCEPT ![t] = "done"]
    /\ UNCHANGED shutdownCalls
    /\ UNCHANGED <<wfVars, repVars, mainVars>>

\* TemporalWorkerTask.shutdown.  `self.worker.shutdown()` is not awaited:
\* Worker.shutdown is a coroutine function, so the call builds a coroutine
\* that never runs and the worker keeps polling.  Then
\* `await self.client.close()` releases the connection.
shutdown(r) ==
    /\ rep[r] \in {"submitted", "connected", "registered", "polling"}
    /\ shutdownCalls < MaxShutdownCalls
    /\ shutdownCalls' = shutdownCalls + 1
    /\ client' = [client EXCEPT ![r] = IF @ = "none" THEN "none" ELSE "closed"]
    /\ UNCHANGED <<max_concurrent_activities, rep, worker, executorSize, task>>
    /\ UNCHANGED <<wfVars, mainVars>>

(***************************************************************************)
(* worker.py: run_ray_worker and main                                      *)
(***************************************************************************)

\* A mutant: main never initializes Ray.
NeedsRayInitNever == FALSE

\* if not ray.is_initialized():
NeedsRayInit == ~rayInitialized

\* if not ray.is_initialized(): ray.init()
MainRayInit ==
    /\ mainPc = "start"
    /\ IF NeedsRayInit
       THEN /\ rayInitialized' = TRUE
            /\ rayInitCalls' = rayInitCalls + 1
       ELSE UNCHANGED <<rayInitialized, rayInitCalls>>
    /\ mainPc' = "spawn"
    /\ UNCHANGED <<rayShutdownCalls, spawned, mainExc, interrupted>>
    /\ UNCHANGED <<wfVars, repVars, taskVars>>

\* One turn of run_ray_worker's loop: TemporalWorkerTask.remote(...) and
\* start_worker.remote(), which does not wait.  After the last turn main goes
\* on to the wait.
RunRayWorkerSpawn ==
    /\ mainPc = "spawn"
    /\ spawned < num_workers
    /\ spawned' = spawned + 1
    /\ rep' = [rep EXCEPT ![spawned + 1] = "submitted"]
    /\ mainPc' = IF spawned + 1 = num_workers THEN "wait" ELSE "spawn"
    /\ UNCHANGED <<max_concurrent_activities, client, worker, executorSize>>
    /\ UNCHANGED <<rayInitialized, rayInitCalls, rayShutdownCalls, mainExc,
                   interrupted>>
    /\ UNCHANGED <<wfVars, taskVars>>

\* asyncio.gather(*[ray.get(task) for task in worker_tasks]): the list is built
\* first, and ray.get blocks on worker_tasks[0] until that replica's
\* start_worker ends.  start_worker ends only by raising (nothing in main can
\* call shutdown: the actor handles are dropped), and ray.get re-raises it;
\* `except Exception` logs and re-raises.
MainRayGet ==
    /\ mainPc = "wait"
    /\ rep[1] = "failed"
    /\ mainExc' = "RayTaskError"
    /\ mainPc' = "finally"
    /\ UNCHANGED <<rayInitialized, rayInitCalls, rayShutdownCalls, spawned,
                   interrupted>>
    /\ UNCHANGED <<wfVars, repVars, taskVars>>

\* An interrupt arrives while main is in its try block:
\* `except KeyboardInterrupt` logs it and main goes on to the finally.
MainInterrupt ==
    /\ mainPc \in {"spawn", "wait"}
    /\ mainExc' = "KeyboardInterrupt"
    /\ interrupted' = TRUE
    /\ mainPc' = "finally"
    /\ UNCHANGED <<rayInitialized, rayInitCalls, rayShutdownCalls, spawned>>
    /\ UNCHANGED <<wfVars, repVars, taskVars>>

\* finally: if ray.is_initialized(): ray.shutdown().  ray.shutdown() ends the
\* actors where they are; main calls no TemporalWorkerTask.shutdown, so an
\* open client is dropped with its actor, never closed.
MainFinally ==
    /\ mainPc = "finally"
    /\ IF rayInitialized
       THEN /\ rayInitialized' = FALSE
            /\ rayShutdownCalls' = rayShutdownCalls + 1
            /\ rep' = [r \in Replicas |->
                          IF rep[r] \in {"absent", "failed"} THEN rep[r]
                          ELSE "killed"]
            /\ client' = [r \in Replicas |->
                          IF client[r] = "open" THEN "dropped" ELSE client[r]]
            /\ worker' = [r \in Replicas |->
                          IF worker[r] = "none" THEN "none" ELSE "stopped"]
       ELSE UNCHANGED <<rayInitialized, rayShutdownCalls, rep, client, worker>>
    /\ mainPc' = IF mainExc = "RayTaskError" THEN "raised" ELSE "returned"
    /\ UNCHANGED <<max_concurrent_activities, executorSize>>
    /\ UNCHANGED <<rayInitCalls, spawned, mainExc, interrupted>>
    /\ UNCHANGED <<wfVars, taskVars>>

(***************************************************************************)
(* Initial states and specifications                                       *)
(***************************************************************************)
WfIdle ==
    /\ wfState = "Idle"
    /\ wfResult = << >>
    /\ wfFailure = NoFailure
    /\ actState = "None"
    /\ actResult = << >>
    /\ attempt = 0
    /\ elapsed = 0
    /\ lastFailure = NoFailure
    /\ externalCalls = 0

RepIdle ==
    /\ rep = [r \in Replicas |-> "absent"]
    /\ client = [r \in Replicas |-> "none"]
    /\ worker = [r \in Replicas |-> "none"]
    /\ executorSize = [r \in Replicas |-> 0]

TaskIdle ==
    /\ task = [t \in Tasks |-> "queued"]
    /\ shutdownCalls = 0

MainIdle ==
    /\ rayInitialized = FALSE
    /\ rayInitCalls = 0
    /\ rayShutdownCalls = 0
    /\ mainPc = "none"
    /\ spawned = 0
    /\ mainExc = "none"
    /\ interrupted = FALSE

\* A client submitted run(url): the execution is Scheduled.
InitWf ==
    /\ endpoint \in Endpoints
    /\ wfState = "Scheduled"
    /\ wfResult = << >>
    /\ wfFailure = NoFailure
    /\ actState = "None"
    /\ actResult = << >>
    /\ attempt = 0
    /\ elapsed = 0
    /\ lastFailure = NoFailure
    /\ externalCalls = 0
    /\ max_concurrent_activities = MainMaxConcurrentActivities
    /\ RepIdle /\ TaskIdle /\ MainIdle

NextWf ==
    \/ WorkflowStart
    \/ ActivityStart
    \/ Tick
    \/ HttpGetReturn
    \/ HttpGetRaise
    \/ ActivityTimeout
    \/ WorkflowReturn

SpecWf == InitWf /\ [][NextWf]_vars

\* The service schedules, times and retries without stalling.
FairSpecWf == SpecWf /\ WF_vars(NextWf)

\* One actor, TemporalWorkerTask(max_concurrent_activities=N), whose
\* start_worker was called; NumTasks activity tasks wait on its task queue.
InitReplica ==
    /\ endpoint = CHOOSE e \in Endpoints : e.kind = "conn_error"
    /\ WfIdle
    /\ max_concurrent_activities \in 1..MaxN
    /\ rep = [r \in Replicas |-> IF r = 1 THEN "submitted" ELSE "absent"]
    /\ client = [r \in Replicas |-> "none"]
    /\ worker = [r \in Replicas |-> "none"]
    /\ executorSize = [r \in Replicas |-> 0]
    /\ TaskIdle /\ MainIdle

NextReplica ==
    \/ StartWorkerConnect(1)
    \/ StartWorkerConnectFail(1)
    \/ StartWorkerCreateWorker(1)
    \/ StartWorkerRun(1)
    \/ WorkerRunFail(1)
    \/ \E t \in Tasks : ActivityTaskStart(1, t)
    \/ \E t \in Tasks : ActivityTaskFinish(t)
    \/ shutdown(1)

SpecReplica == InitReplica /\ [][NextReplica]_vars

\* asyncio.run(main()): Ray may or may not be initialized already.
InitMain ==
    /\ endpoint = CHOOSE e \in Endpoints : e.kind = "conn_error"
    /\ WfIdle
    /\ max_concurrent_activities = MainMaxConcurrentActivities
    /\ RepIdle /\ TaskIdle
    /\ rayInitialized \in BOOLEAN
    /\ rayInitCalls = 0
    /\ rayShutdownCalls = 0
    /\ mainPc = "start"
    /\ spawned = 0
    /\ mainExc = "none"
    /\ interrupted = FALSE

MainStep ==
    \/ MainRayInit
    \/ RunRayWorkerSpawn
    \/ MainRayGet
    \/ MainFinally

StartupStep ==
    \E r \in Replicas :
        \/ StartWorkerConnect(r)
        \/ StartWorkerConnectFail(r)
        \/ StartWorkerCreateWorker(r)
        \/ StartWorkerRun(r)

NextMain ==
    \/ MainStep
    \/ StartupStep
    \/ \E r \in Replicas : WorkerRunFail(r)
    \/ MainInterrupt

SpecMain == InitMain /\ [][NextMain]_vars

\* main and the replicas' startup run whenever they can; nothing makes a
\* polling replica fail or an interrupt arrive.
FairSpecMain == SpecMain /\ WF_vars(MainStep) /\ WF_vars(StartupStep)

Spec == SpecWf

(***************************************************************************)
(* Properties                                                              *)
(***************************************************************************)
Terminal == {"Completed", "Failed"}

\* The GET of the URL completes inside the start-to-close timeout.
OkInTime == endpoint.kind = "ok" /\ endpoint.latency < StartToCloseTimeout

PassThroughInv ==
    /\ wfState = "Completed" => wfResult = endpoint.body
    /\ actState = "Completed" => actResult = endpoint.body
    /\ OkInTime => wfState # "Failed"

\* C1: when the GET of the URL completes with body b inside the 3-second
\* timeout, the execution reaches Completed with result exactly b; no state
\* holds a result other than b, and the execution does not fail.
C1_PassThrough ==
    /\ []PassThroughInv
    /\ OkInTime ~> (wfState = "Completed" /\ wfResult = endpoint.body)

\* C1's case: a run Completed with a non-empty body as its result.
C1_Witness ==
    /\ wfState = "Completed"
    /\ Len(endpoint.body) > 0
    /\ wfResult = endpoint.body

\* C2: once an attempt of the activity exceeded the start-to-close timeout,
\* the execution eventually is Failed with a Timeout failure, and it never
\* completes successfully.
C2_TimeoutFailsWorkflow ==
    /\ [](lastFailure[1] = "Timeout" => wfState # "Completed")
    /\ (lastFailure[1] = "Timeout")
          ~> (wfState = "Failed" /\ wfFailure[1] = "Timeout")

\* C3: once the external call failed at once with a network error, the
\* execution eventually is Failed with an Activity failure whose cause is that
\* error (and not a Timeout failure).
C3_ErrorFailsWorkflow ==
    (lastFailure = <<"ActivityError", "ClientConnectorError">>)
        ~> (wfState = "Failed"
            /\ wfFailure = <<"ActivityError", "ClientConnectorError">>)

\* C4: on a replica created with max_concurrent_activities = N, at most N
\* http_get executions run at any time.
C4_AtMostNRunning == Cardinality(Running) <= max_concurrent_activities

\* C5: one workflow execution makes one activity attempt and one external
\* GET: never more than one, and exactly one once the execution is terminal.
C5_OneExternalCall ==
    /\ externalCalls <= 1
    /\ attempt <= 1
    /\ wfState \in Terminal => externalCalls = 1

MainDone == mainPc \in {"returned", "raised"}

RayLifecycleInv ==
    /\ rayInitCalls <= 1
    /\ rayShutdownCalls <= 1
    /\ (\E r \in Replicas : rep[r] # "absent") =>
           (rayInitialized \/ rayShutdownCalls = 1)
    /\ MainDone => (rayShutdownCalls = 1 /\ ~rayInitialized)
    /\ ~MainDone => rayShutdownCalls = 0

C7_ConcurrentWait ==
    (mainPc = "wait" /\ \E r \in Replicas : rep[r] = "failed")
        => ENABLED MainRayGet

\* C8: after a graceful-shutdown request the connection is released only when
\* the worker has stopped polling and nothing is in flight: the connection is
\* never closed while an activity execution is still running on the worker.
C8_CloseAfterDrain == client[1] = "closed" => Running = {}

\* C9: when main has ended after an interrupt, the connection of every replica
\* that had connected has been released.
C9_ReleasedAtExit ==
    (MainDone /\ interrupted)
        => \A r \in Replicas : client[r] \in {"none", "closed"}

\* C10: when the startup of any replica fails, the error propagates out of
\* main (unless an interrupt ended main first).
C10_StartupErrorPropagates ==
    (\E r \in Replicas : rep[r] = "failed")
        ~> (mainPc = "raised" \/ interrupted)

====
